---- MODULE Spec2Model ----
(***************************************************************************)
(* Authorization resolution of w3up-client: a database of delegations is   *)
(* projected into (entity, attribute, value) facts, a selector is turned   *)
(* into a query by authorization/query.js, the query is evaluated against  *)
(* the facts and every binding becomes an Authorization.                   *)
(*                                                                         *)
(* Text (DIDs, abilities, resources) is a sequence of tokens so that glob  *)
(* matching is computed rather than assumed; the token "*" is the wildcard *)
(* character.                                                              *)
(*                                                                         *)
(* Beside the resolver (Spec, SpecNow) the module holds the delegation     *)
(* store (SpecStore): putMany writes archives to a bucket and then rows to *)
(* a table while find and the async iterator read them; and the accounts   *)
(* (SpecAccounts): saveDelegation reads, extends and writes back the list  *)
(* kept per email in a key-value namespace.                                *)
(***************************************************************************)
EXTENDS Integers, Sequences, FiniteSets, TLC

\* ------------------------------------------------------------------ bounds
\* Largest query time; finite expirations range over 1..MaxTime-1.
MaxTime == 2
\* Largest number of delegations asserted into the database.
MaxDb == 2

\* -------------------------------------------------------------- constants
\* `expiration: Infinity` of a delegation that never expires.
Infinity == -1

Times == 0..MaxTime
Expirations == (1..(MaxTime - 1)) \cup {Infinity}

\* ------------------------------------------------------------- principals
alice == <<"did:", "key:", "alice">>
bob == <<"did:", "key:", "bob">>
space == <<"did:", "key:", "space">>
remoteSpace == <<"did:", "key:", "remote">>
account == <<"did:", "mailto:", "web.mail:alice">>
w3up == <<"did:", "web:", "w3up">>

\* -------------------------------------------------------------- abilities
storeAdd == <<"store/", "add">>
storeRemove == <<"store/", "remove">>
storeAny == <<"store/", "*">>
uploadAny == <<"upload/", "*">>
anyAbility == <<"*">>
ucanAttest == <<"ucan/", "attest">>

\* The wildcard resource and the patterns query.js uses.
ucanAny == <<"ucan:", "*">>
mailtoPattern == <<"did:", "mailto:", "*">>
keyPattern == <<"did:", "key:", "*">>
anyPattern == <<"*">>

\* ------------------------------------------------------------ delegations
\* A link (cid) is a pair <<name, expiration>>: it is derived from the
\* content, so that delegations differing in expiration have different cids.
NoLink == <<"none", 0>>
Unbound == NoLink

Cap(can, with) == [can |-> can, with |-> with, nb |-> NoLink]

Attest(proof) == [can |-> ucanAttest, with |-> w3up, nb |-> proof]

UCAN(issuer, audience, capabilities, expiration, proofs) ==
  [issuer |-> issuer, audience |-> audience, capabilities |-> capabilities,
   expiration |-> expiration, proofs |-> proofs]

Links ==
  ({"add", "attest-login"} \X Expirations)
    \cup ({"remove", "share", "bob", "mail", "login", "recovery", "owner",
           "session", "attest-mail", "attest-bob"} \X {Infinity})

\* The content a link addresses.
Delegations ==
  [cid \in Links |->
     CASE cid[1] = "add" ->
            UCAN(space, alice, <<Cap(storeAdd, space)>>, cid[2], {})
       [] cid[1] = "remove" ->
            UCAN(space, alice, <<Cap(storeRemove, space)>>, cid[2], {})
       [] cid[1] = "share" ->
            UCAN(space, alice,
                 <<Cap(storeAny, space), Cap(uploadAny, space)>>, cid[2], {})
       [] cid[1] = "bob" ->
            UCAN(space, bob, <<Cap(storeAdd, space)>>, cid[2], {})
       [] cid[1] = "mail" ->
            UCAN(account, alice, <<Cap(storeAdd, account)>>, cid[2], {})
       [] cid[1] = "login" ->
            UCAN(account, alice, <<Cap(anyAbility, ucanAny)>>, cid[2],
                 {<<"recovery", Infinity>>})
       [] cid[1] = "recovery" ->
            UCAN(remoteSpace, account, <<Cap(anyAbility, remoteSpace)>>,
                 cid[2], {})
       [] cid[1] = "owner" ->
            UCAN(remoteSpace, alice, <<Cap(storeAny, ucanAny)>>, cid[2], {})
       [] cid[1] = "session" ->
            UCAN(alice, bob, <<Cap(anyAbility, ucanAny)>>, cid[2],
                 {<<"login", Infinity>>})
       [] cid[1] = "attest-login" ->
            UCAN(w3up, alice, <<Attest(<<"login", Infinity>>)>>, cid[2], {})
       [] cid[1] = "attest-mail" ->
            UCAN(w3up, alice, <<Attest(<<"mail", Infinity>>)>>, cid[2], {})
       [] OTHER ->
            UCAN(w3up, bob, <<Attest(<<"login", Infinity>>)>>, cid[2], {})]

\* ------------------------------------------------------------- fact index
\* A delegation carries its proofs with it, so asserting it also makes the
\* delegations it links to known to the index.
RECURSIVE Projected(_)
Projected(db) ==
  LET nested == db \cup UNION {Delegations[d].proofs : d \in db}
  IN IF nested = db THEN db ELSE Projected(nested)

\* Capability entities of a set of delegations: <<cid, position>>.
CapabilityEntities(ucans) ==
  UNION {{<<d, i>> : i \in DOMAIN Delegations[d].capabilities} : d \in ucans}

CapabilityOf(k) == Delegations[k[1]].capabilities[k[2]]

\* The facts of a database, one relation of <<entity, value>> per attribute.
from(db) ==
  LET ucans == Projected(db)
      caps == CapabilityEntities(ucans)
  IN [ucans |-> ucans,
      caps |-> caps,
      issuer |-> {<<d, Delegations[d].issuer>> : d \in ucans},
      audience |-> {<<d, Delegations[d].audience>> : d \in ucans},
      expiration |-> {<<d, Delegations[d].expiration>> : d \in ucans},
      capability |-> {<<k[1], k>> : k \in caps},
      proof |-> UNION {{<<d, p>> : p \in Delegations[d].proofs} : d \in ucans},
      can |-> {<<k, CapabilityOf(k).can>> : k \in caps},
      with |-> {<<k, CapabilityOf(k).with>> : k \in caps},
      nbProof |-> {<<k, CapabilityOf(k).nb>> :
                     k \in {c \in caps : CapabilityOf(c).nb # NoLink}}]

\* Values an attribute takes in the index.
Values(relation) == {fact[2] : fact \in relation}

\* ------------------------------------------------------------ constraints
\* Wildcard match of a text against a pattern: "*" stands for any run of
\* characters, every other token for itself.
RECURSIVE glob(_, _)
glob(text, pattern) ==
  IF pattern = <<>> THEN text = <<>>
  ELSE IF Head(pattern) = "*"
       THEN \/ glob(text, Tail(pattern))
            \/ text # <<>> /\ glob(Tail(text), pattern)
       ELSE /\ text # <<>>
            /\ Head(text) = Head(pattern)
            /\ glob(Tail(text), Tail(pattern))

\* expiration >= time where +infinity is never less than a finite time.
greaterOrEqual(expiration, time) ==
  expiration = Infinity \/ expiration >= time

\* A text constraint is an exact text or a glob pattern.
Is(text) == [kind |-> "is", text |-> text]

Glob(pattern) == [kind |-> "glob", text |-> pattern]

NoConstraint == [kind |-> "none", text |-> <<>>]

Text_match(term, constraint) ==
  IF constraint.kind = "glob" THEN glob(term, constraint.text)
  ELSE term = constraint.text

\* --------------------------------------------------------- domain matchers
Capability_match(index, capability, can, subject) ==
  /\ <<capability, can>> \in index.can
  /\ <<capability, subject>> \in index.with

Delegation_match(index, delegation, capability, audience, issuer, time) ==
  /\ <<delegation, capability>> \in index.capability
  /\ <<delegation, audience>> \in index.audience
  /\ <<delegation, issuer>> \in index.issuer
  /\ \E fact \in index.expiration :
       fact[1] = delegation /\ greaterOrEqual(fact[2], time)

Delegation_forwards(index, delegation, issuer, audience, can, time) ==
  \E capability \in index.caps :
    /\ Capability_match(index, capability, can, ucanAny)
    /\ Delegation_match(index, delegation, capability, audience, issuer, time)

Delegation_issuedBy(index, delegation, issuer) ==
  <<delegation, issuer>> \in index.issuer

Delegation_hasProof(index, delegation, proof) ==
  <<delegation, proof>> \in index.proof

Attestation_match(index, attestation, proof, time, audience) ==
  \E capability \in index.caps :
    /\ <<capability, ucanAttest>> \in index.can
    /\ <<capability, proof>> \in index.nbProof
    /\ \E issuer \in Values(index.issuer) :
         Delegation_match(index, attestation, capability, audience, issuer,
                          time)

\* ------------------------------------------------- authorization/query.js
\* The time of the query is not handed on to the delegation match.
explicit_anyTime(index, delegation, audience, issuer, subject, can, time) ==
  \E capability \in index.caps :
    /\ Capability_match(index, capability, can, subject)
    /\ Delegation_match(index, delegation, capability, audience, issuer, 0)

explicit(index, delegation, audience, issuer, subject, can, time) ==
  \E capability \in index.caps :
    /\ Capability_match(index, capability, can, subject)
    /\ Delegation_match(index, delegation, capability, audience, issuer, time)

implicit(index, delegation, subject, can, time, audience, issuer) ==
  /\ Delegation_forwards(index, delegation, issuer, audience, can, time)
  /\ \/ Delegation_issuedBy(index, delegation, subject)
     \/ \E proof \in index.ucans :
          /\ Delegation_hasProof(index, delegation, proof)
          /\ \E proofIssuer \in Values(index.issuer) :
               explicit(index, proof, issuer, proofIssuer, subject, can, time)

\* Only the implicit branch is tried.
match_implicitOnly(index, delegation, audience, subject, issuer, can, time) ==
  implicit(index, delegation, subject, can, time, audience, issuer)

\* The implicit branch is tried only when the index holds no delegation for
\* the audience on a resource of its own.
match_unlessExplicit(index, delegation, audience, subject, issuer, can, time) ==
  \/ explicit(index, delegation, audience, issuer, subject, can, time)
  \/ /\ implicit(index, delegation, subject, can, time, audience, issuer)
     /\ ~ \E other \in index.ucans : \E by \in Values(index.issuer) :
            \E on \in Values(index.with) \ {ucanAny} :
              \E ability \in Values(index.can) :
              explicit(index, other, audience, by, on, ability, time)

match(index, delegation, audience, subject, issuer, can, time) ==
  \/ explicit(index, delegation, audience, issuer, subject, can, time)
  \/ implicit(index, delegation, subject, can, time, audience, issuer)

\* The `need` of the single group built when no ability was requested.
NoNeed == <<>>

\* An attestation is looked for whoever issued the proof.
attestations_alwaysRequired(index, issuer, attestation, proof, time, audience) ==
  /\ attestation # Unbound
  /\ Attestation_match(index, attestation, proof, time, audience)

\* No attestation is looked for: every proof passes as it is.
attestations_notRequired(index, issuer, attestation, proof, time, audience) ==
  attestation = Unbound

\* The clause that finds an attestation for a proof: it succeeds without one
\* when the proof was not issued by a did:mailto: principal.
attestations(index, issuer, attestation, proof, time, audience) ==
  \/ /\ attestation = Unbound
     /\ ~ glob(issuer, mailtoPattern)
  \/ /\ attestation # Unbound
     /\ Attestation_match(index, attestation, proof, time, audience)

\* The ability of the proof is not held against the requested one.
where_noNeed(index, need, proof, issuer, can, attestation, subject, audience, time) ==
  /\ match(index, proof, audience, subject, issuer, can, time)
  /\ attestations(index, issuer, attestation, proof, time, audience)

\* The requested ability is taken as the pattern and the delegated one as
\* the text.
where_globReversed(index, need, proof, issuer, can, attestation, subject, audience, time) ==
  /\ match(index, proof, audience, subject, issuer, can, time)
  /\ need # NoNeed => glob(can, need)
  /\ attestations(index, issuer, attestation, proof, time, audience)

\* The clause of one proof group.
where(index, need, proof, issuer, can, attestation, subject, audience, time) ==
  /\ match(index, proof, audience, subject, issuer, can, time)
  /\ need # NoNeed => glob(need, can)
  /\ attestations(index, issuer, attestation, proof, time, audience)

\* The audience of the selector is not held against the matches.
constraints_noAudience(q, subject, audience) ==
  Text_match(subject, q.subject)

\* The subject pattern of the selector is not held against the matches.
constraints_noSubject(q, subject, audience) ==
  Text_match(audience, q.audience)

\* The text constraints on the subject and the audience of the query.
constraints(q, subject, audience) ==
  /\ Text_match(subject, q.subject)
  /\ Text_match(audience, q.audience)

\* A group is built for the first requested ability only.
query_firstNeed(selector) ==
  LET need == selector.can
  IN [proofs |-> IF Len(need) > 0 THEN <<need[1]>> ELSE <<NoNeed>>,
      subject |-> IF selector.subject.kind = "none" THEN Glob(anyPattern)
                  ELSE selector.subject,
      audience |-> Is(selector.audience),
      time |-> selector.time]

\* The groups are built without their `need`.
query_omitNeed(selector) ==
  LET need == selector.can
  IN [proofs |-> IF Len(need) > 0 THEN [i \in DOMAIN need |-> NoNeed]
                 ELSE <<NoNeed>>,
      subject |-> IF selector.subject.kind = "none" THEN Glob(anyPattern)
                  ELSE selector.subject,
      audience |-> Is(selector.audience),
      time |-> selector.time]

\* No group is built when no ability was requested.
query_noFallback(selector) ==
  [proofs |-> selector.can,
   subject |-> IF selector.subject.kind = "none" THEN Glob(anyPattern)
               ELSE selector.subject,
   audience |-> Is(selector.audience),
   time |-> selector.time]

\* One group per requested ability, a single group without `need` if none.
query(selector) ==
  LET need == selector.can
  IN [proofs |-> IF Len(need) > 0 THEN need ELSE <<NoNeed>>,
      subject |-> IF selector.subject.kind = "none" THEN Glob(anyPattern)
                  ELSE selector.subject,
      audience |-> Is(selector.audience),
      time |-> selector.time]

\* --------------------------------------------------------------- evaluator
\* Bindings of the variables of one proof group that the facts can supply;
\* the attestation stays unbound on the branch that needs none.
GroupCandidates(index, need) ==
  UNION {{[need |-> need, proof |-> proof, issuer |-> issuer, can |-> can,
           attestation |-> attestation] :
            issuer \in {f[2] : f \in {g \in index.issuer : g[1] = proof}},
            can \in {CapabilityOf(f[2]).can :
                       f \in {g \in index.capability : g[1] = proof}},
            attestation \in index.ucans \cup {Unbound}} :
         proof \in index.ucans}

\* All ways to pick one member from each set of a sequence of sets.
Product(sets) ==
  {f \in [DOMAIN sets -> UNION {sets[i] : i \in DOMAIN sets}] :
     \A i \in DOMAIN sets : f[i] \in sets[i]}

\* The bindings that satisfy every clause of the query, as a set: the order
\* of the rows and rows that repeat a binding are left out.
DB_query(index, q) ==
  LET subjects == Values(index.with) \cup Values(index.issuer)
      audiences == Values(index.audience)
      matches(subject, audience) ==
        [i \in DOMAIN q.proofs |->
           {b \in GroupCandidates(index, q.proofs[i]) :
              where(index, b.need, b.proof, b.issuer, b.can, b.attestation,
                    subject, audience, q.time)}]
  IN UNION {{[subject |-> sa[1], audience |-> sa[2], proofs |-> f] :
               f \in Product(matches(sa[1], sa[2]))} :
            sa \in {c \in subjects \X audiences :
                      constraints(q, c[1], c[2])}}

\* ----------------------------------------------------------- authorization
Range(f) == {f[i] : i \in DOMAIN f}

\* The Authorization of one binding: abilities and proofs of all its groups.
Authorization_from(row) ==
  [authority |-> row.audience,
   subject |-> row.subject,
   can |-> {IF b.need # NoNeed THEN b.need ELSE b.can :
              b \in Range(row.proofs)},
   proofs |-> ({b.proof : b \in Range(row.proofs)}
                 \cup {b.attestation : b \in Range(row.proofs)}) \ {Unbound}]

find(db, selector) ==
  {Authorization_from(row) : row \in DB_query(from(db), query(selector))}

\* ------------------------------------------------------------------- state
VARIABLES db, selector, result, pc

\* The delegation store: the bucket of archives, the table of rows, the
\* putMany calls in flight and the reader of find / the async iterator.
VARIABLES dags, table, put, reader

storeVars == <<dags, table, put, reader>>

\* The accounts: the key-value namespace, the saveDelegation calls in flight
\* and the answer of the last hasDelegations / getDelegations.
VARIABLES kv, saver, lookup

accountVars == <<kv, saver, lookup>>

vars ==
  <<db, selector, result, pc, dags, table, put, reader, kv, saver, lookup>>

\* The callers of putMany.
Writers == {"w1", "w2"}

NoError == [name |-> "", message |-> ""]

IdlePut == [pc |-> "idle", delegations |-> <<>>, pending |-> {}]

IdleReader ==
  [pc |-> "idle", mode |-> "", audience |-> <<>>, rows |-> {}, seen |-> {},
   yielded |-> {}, error |-> NoError]

\* The callers of saveDelegation.
Savers == {"s1", "s2"}

NoEmail == <<>>

IdleSaver ==
  [pc |-> "idle", email |-> NoEmail, delegation |-> NoLink, accs |-> <<>>,
   found |-> FALSE]

NoLookup ==
  [op |-> "", email |-> NoEmail, has |-> FALSE, found |-> FALSE,
   delegations |-> <<>>]

\* new Accounts(kv, db) on an empty namespace.
AccountsInit ==
  /\ kv = <<>>
  /\ saver = [s \in Savers |-> IdleSaver]
  /\ lookup = NoLookup

\* new DbDelegationsStorageWithR2(db, dags) on an empty table and bucket.
StoreInit ==
  /\ dags = <<>>
  /\ table = {}
  /\ put = [w \in Writers |-> IdlePut]
  /\ reader = IdleReader

Audiences == {alice, bob}

Cans == {<<>>, <<storeAdd>>, <<storeAdd, storeRemove>>, <<anyAbility>>}

Subjects == {NoConstraint, Is(account), Glob(keyPattern)}

Selectors ==
  [audience : Audiences, can : Cans, subject : Subjects, time : Times]

NoSelector ==
  [audience |-> alice, can |-> <<>>, subject |-> NoConstraint, time |-> 0]

Init ==
  /\ db = {}
  /\ selector = NoSelector
  /\ result = {}
  /\ pc = "idle"
  /\ StoreInit
  /\ AccountsInit

\* DB.transact(db, [{ assert: { proof } }]).  An Authorization is a view of
\* the delegations it was found in, so an earlier result is dropped.
Transact(proof) ==
  /\ proof \notin db
  /\ Cardinality(db) < MaxDb
  /\ db' = db \cup {proof}
  /\ selector' = NoSelector
  /\ result' = {}
  /\ pc' = "idle"
  /\ UNCHANGED <<storeVars, accountVars>>

\* The caller passes a selector to Authorization.find.  A query is a pure
\* function of the database and the selector, so a second query against the
\* same database reaches no state that the first one does not.
Select(s) ==
  /\ pc = "idle"
  /\ selector' = s
  /\ pc' = "query"
  /\ UNCHANGED <<db, result>>
  /\ UNCHANGED <<storeVars, accountVars>>

\* The query of the selector is run against the facts of the database.
Find ==
  /\ pc = "query"
  /\ result' = find(db, selector)
  /\ pc' = "done"
  /\ UNCHANGED <<db, selector>>
  /\ UNCHANGED <<storeVars, accountVars>>

Next ==
  \/ \E proof \in Links : Transact(proof)
  \/ \E s \in Selectors : Select(s)
  \/ Find

Spec == Init /\ [][Next]_vars

\* The queries that leave the time out: it defaults to the current time,
\* here the latest time, at which every finite expiration has passed.
Now == MaxTime

SelectorsNow ==
  [audience : Audiences, can : Cans \cup {<<storeAny>>}, subject : Subjects,
   time : {Now}]

NextNow ==
  \/ \E proof \in Links : Transact(proof)
  \/ \E s \in SelectorsNow : Select(s)
  \/ Find

SpecNow == Init /\ [][NextNow]_vars

TypeOK ==
  /\ db \subseteq Links
  /\ selector \in Selectors \cup SelectorsNow
  /\ pc \in {"idle", "query", "done"}
  /\ \A row \in table : row.cid \in Links
  /\ \A w \in Writers : put[w].pc \in {"idle", "write", "done", "failed"}
  /\ reader.pc \in {"idle", "rows", "done", "threw"}
  /\ \A s \in Savers : saver[s].pc \in {"idle", "get", "put", "done"}

\* ------------------------------------------------------------ clause trees
\* The clause tree query builds, by the variables its clauses mention.  A
\* term is a variable <<name, scope>> or a constant.
Constant == <<"constant", <<>>>>

Variable(name, scope) == <<name, scope>>

Variables(terms) == terms \ {Constant}

DB_match(terms) ==
  [kind |-> "match", terms |-> Variables(terms), clauses |-> <<>>]

DB_glob(terms) ==
  [kind |-> "glob", terms |-> Variables(terms), clauses |-> <<>>]

DB_and(left, right) ==
  [kind |-> "and", terms |-> {}, clauses |-> <<left, right>>]

DB_or(left, right) ==
  [kind |-> "or", terms |-> {}, clauses |-> <<left, right>>]

DB_not(operand) == [kind |-> "not", terms |-> {}, clauses |-> <<operand>>]

\* Every variable a clause mentions.
RECURSIVE Free(_)
Free(clause) ==
  clause.terms \cup UNION {Free(clause.clauses[i]) : i \in DOMAIN clause.clauses}

\* The variables that are bound after a clause, given those bound before it:
\* a match binds its terms, a conjunction threads left to right, a
\* disjunction guarantees what both branches bind, a negation and a glob
\* bind nothing.
RECURSIVE Binds(_, _)
Binds(clause, bound) ==
  CASE clause.kind = "match" -> bound \cup clause.terms
    [] clause.kind = "and" ->
         Binds(clause.clauses[2], Binds(clause.clauses[1], bound))
    [] clause.kind = "or" ->
         Binds(clause.clauses[1], bound) \cap Binds(clause.clauses[2], bound)
    [] OTHER -> bound

\* No construction error: the operand of every Not and the terms of every
\* Glob are bound by the clauses evaluated before them.
RECURSIVE Constructs(_, _)
Constructs(clause, bound) ==
  CASE clause.kind = "match" -> TRUE
    [] clause.kind = "glob" -> clause.terms \subseteq bound
    [] clause.kind = "not" ->
         /\ Free(clause.clauses[1]) \subseteq bound
         /\ Constructs(clause.clauses[1], bound)
    [] clause.kind = "or" ->
         /\ Constructs(clause.clauses[1], bound)
         /\ Constructs(clause.clauses[2], bound)
    [] OTHER ->
         /\ Constructs(clause.clauses[1], bound)
         /\ Constructs(clause.clauses[2], Binds(clause.clauses[1], bound))

Capability_clause(capability, can, subject) ==
  DB_and(DB_match({capability, can}), DB_match({capability, subject}))

\* The expiration is matched and then compared with the time.
Delegation_clause(delegation, capability, audience, issuer, scope) ==
  DB_and(DB_match({delegation, capability}),
    DB_and(DB_match({delegation, audience}),
      DB_and(DB_match({delegation, issuer}),
        DB_and(DB_match({delegation, Variable("expiration", scope)}),
               DB_glob({Variable("expiration", scope)})))))

Delegation_forwards_clause(delegation, issuer, audience, can, scope) ==
  DB_and(Capability_clause(Variable("capability", scope), can, Constant),
         Delegation_clause(delegation, Variable("capability", scope),
                           audience, issuer, scope))

Attestation_clause(attestation, proof, audience, scope) ==
  DB_and(Capability_clause(Variable("capability", scope), Constant, Constant),
    DB_and(DB_match({Variable("capability", scope), proof}),
           Delegation_clause(attestation, Variable("capability", scope),
                             audience, Variable("issuer", scope), scope)))

explicit_clause(delegation, audience, issuer, subject, can, scope) ==
  DB_and(Capability_clause(Variable("capability", scope), can, subject),
         Delegation_clause(delegation, Variable("capability", scope),
                           audience, issuer, scope))

implicit_clause(delegation, subject, can, audience, issuer, scope) ==
  DB_and(
    Delegation_forwards_clause(delegation, issuer, audience, can,
                               scope \o <<"forwards">>),
    DB_or(DB_match({delegation, subject}),
          DB_and(DB_match({delegation, Variable("proof", scope)}),
                 explicit_clause(Variable("proof", scope), issuer,
                                 Variable("issuer", scope), subject, can,
                                 scope \o <<"explicit">>))))

match_clause(delegation, audience, subject, issuer, can, scope) ==
  DB_or(explicit_clause(delegation, audience, issuer, subject, can,
                        scope \o <<"explicit">>),
        implicit_clause(delegation, subject, can, audience, issuer,
                        scope \o <<"implicit">>))

\* The attestation clause is put in front of the clause that finds the proof.
where_clause_attestationsFirst(need, subject, audience, group) ==
  LET issuer == Variable("issuer", <<group>>)
      can == Variable("can", <<group>>)
      proof == Variable("proof", <<group>>)
      clause == match_clause(proof, audience, subject, issuer, can, <<group>>)
      attestationClause ==
        DB_or(DB_not(DB_glob({issuer})),
              Attestation_clause(Variable("attestation", <<group>>), proof,
                                 audience, <<group, "attestation">>))
  IN DB_and(attestationClause,
            IF need # NoNeed THEN DB_and(clause, DB_glob({can})) ELSE clause)

\* The clause of one proof group, as a tree.
where_clause(need, subject, audience, group) ==
  LET issuer == Variable("issuer", <<group>>)
      can == Variable("can", <<group>>)
      proof == Variable("proof", <<group>>)
      clause == match_clause(proof, audience, subject, issuer, can, <<group>>)
      attestationClause ==
        DB_or(DB_not(DB_glob({issuer})),
              Attestation_clause(Variable("attestation", <<group>>), proof,
                                 audience, <<group, "attestation">>))
  IN DB_and(IF need # NoNeed THEN DB_and(clause, DB_glob({can})) ELSE clause,
            attestationClause)

\* The conjunction of a list of clauses, in the order of the list.
RECURSIVE Conjunction(_)
Conjunction(clauses) ==
  IF Len(clauses) = 1 THEN clauses[1]
  ELSE DB_and(Head(clauses), Conjunction(Tail(clauses)))

\* The where list of query: the groups, then the text constraints of the
\* subject and of the audience.
query_clause(s) ==
  LET subject == Variable("subject", <<>>)
      audience == Variable("audience", <<>>)
      need == IF s.can = <<>> THEN <<NoNeed>> ELSE s.can
  IN Conjunction([g \in DOMAIN need |->
                    where_clause(need[g], subject, audience, g)]
                 \o <<DB_glob({subject}), DB_glob({audience})>>)

\* -------------------------------------------------------- delegation store
queryVars == <<db, selector, result, pc>>

\* The delegations handed to putMany, and the lists of them.
StoreItems == {<<"add", Infinity>>, <<"bob", Infinity>>}

PutLists ==
  {l \in UNION {[1..n -> StoreItems] : n \in 0..Cardinality(StoreItems)} :
     \A i \in DOMAIN l : \A j \in DOMAIN l : l[i] = l[j] => i = j}

\* The archive of a list of delegations and the list an archive holds.
delegationsToBytes(delegations) == [car |-> delegations]

bytesToDelegations(carBytes) == carBytes.car

carFileKeyer(cid) == <<cid, ".car">>

createDelegationRowUpdateV3(d) ==
  [cid |-> d, audience |-> Delegations[d].audience,
   issuer |-> Delegations[d].issuer]

\* bucket.put(key, value)
bucket_put(bucket, key, value) ==
  [k \in DOMAIN bucket \cup {key} |-> IF k = key THEN value ELSE bucket[k]]

\* putMany(...delegations), called by a caller that has no call in flight:
\* nothing is done for an empty list; otherwise one bucket.put per delegation
\* is started.
putMany(w, delegations) ==
  /\ put[w].pc \in {"idle", "done", "failed"}
  /\ put' = [put EXCEPT ![w] =
               IF Len(delegations) = 0
               THEN [pc |-> "done", delegations |-> delegations,
                     pending |-> {}]
               ELSE [pc |-> "write", delegations |-> delegations,
                     pending |-> DOMAIN delegations]]
  /\ UNCHANGED <<dags, table, reader, queryVars, accountVars>>

\* One of the bucket.put calls of writeEntries completes.
writeEntries(w, i) ==
  /\ put[w].pc = "write"
  /\ i \in put[w].pending
  /\ dags' = bucket_put(dags, carFileKeyer(put[w].delegations[i]),
                        delegationsToBytes(<<put[w].delegations[i]>>))
  /\ put' = [put EXCEPT ![w].pending = @ \ {i}]
  /\ UNCHANGED <<table, reader, queryVars, accountVars>>

\* All writes are awaited before the rows are inserted.
writesAwaited(w) == put[w].pending = {}

\* The rows are inserted without waiting for the writes to the bucket.
insertRows_noAwait(w) ==
  /\ put[w].pc = "write"
  /\ table' = table \cup
       {createDelegationRowUpdateV3(put[w].delegations[i]) :
          i \in {j \in DOMAIN put[w].delegations :
                   \A row \in table : row.cid # put[w].delegations[j]}}
  /\ put' = [put EXCEPT ![w].pc = "done"]
  /\ UNCHANGED <<dags, reader, queryVars, accountVars>>

\* insertInto(...).values(values).onConflict(cid -> doNothing)
insertRows(w) ==
  /\ put[w].pc = "write"
  /\ writesAwaited(w)
  /\ table' = table \cup
       {createDelegationRowUpdateV3(put[w].delegations[i]) :
          i \in {j \in DOMAIN put[w].delegations :
                   \A row \in table : row.cid # put[w].delegations[j]}}
  /\ put' = [put EXCEPT ![w].pc = "done"]
  /\ UNCHANGED <<dags, reader, queryVars, accountVars>>

\* The insert fails: putMany rejects and the archives stay in the bucket.
insertFails(w) ==
  /\ put[w].pc = "write"
  /\ writesAwaited(w)
  /\ put' = [put EXCEPT ![w].pc = "failed"]
  /\ UNCHANGED <<dags, table, reader, queryVars, accountVars>>

\* Another writer of the bucket replaces an object by an archive of no or of
\* two delegations.
otherPut(key, delegations) ==
  /\ key \in DOMAIN dags
  /\ Len(delegations) # 1
  /\ dags' = bucket_put(dags, key, delegationsToBytes(delegations))
  /\ UNCHANGED <<table, put, reader, queryVars, accountVars>>

\* find({ audience }): the rows of the audience are selected.
Storage_find(audience) ==
  /\ reader.pc = "idle"
  /\ reader' = [IdleReader EXCEPT !.pc = "rows", !.mode = "find",
                                  !.audience = audience,
                                  !.rows = {row.cid : row \in
                                              {r \in table :
                                                 r.audience = audience}}]
  /\ UNCHANGED <<dags, table, put, queryVars, accountVars>>

\* [Symbol.asyncIterator](): fails when the database cannot stream.
asyncIterator(canStream) ==
  /\ reader.pc = "idle"
  /\ reader' = IF canStream
               THEN [IdleReader EXCEPT !.pc = "rows", !.mode = "stream"]
               ELSE [IdleReader EXCEPT !.pc = "threw", !.mode = "stream",
                                       !.error =
                                         [name |-> "NotImplementedError",
                                          message |-> "cannot stream"]]
  /\ UNCHANGED <<dags, table, put, queryVars, accountVars>>

\* The rows the reader has still to turn into delegations: those selected by
\* find, or those the stream has not delivered yet.
RowsLeft ==
  IF reader.mode = "find" THEN reader.rows \ reader.seen
  ELSE {row.cid : row \in table} \ reader.seen

\* The outcome of #rowToDelegation for a row, given the bucket.
rowToDelegation(cid, bucket) ==
  IF carFileKeyer(cid) \notin DOMAIN bucket
  THEN [error |-> [name |-> "Error",
                   message |-> "failed to read car bytes"],
        value |-> NoLink]
  ELSE LET delegations == bytesToDelegations(bucket[carFileKeyer(cid)])
       IN IF Len(delegations) # 1
          THEN [error |-> [name |-> "Error",
                           message |-> "expected 1 delegation in CAR"],
                value |-> NoLink]
          ELSE [error |-> NoError, value |-> delegations[1]]

\* The next row is read: its delegation is yielded, or the generator throws.
yieldRow(cid) ==
  /\ reader.pc = "rows"
  /\ cid \in RowsLeft
  /\ LET outcome == rowToDelegation(cid, dags)
     IN reader' =
          IF outcome.error = NoError
          THEN [reader EXCEPT !.seen = @ \cup {cid},
                              !.yielded = @ \cup {outcome.value}]
          ELSE [reader EXCEPT !.pc = "threw", !.seen = @ \cup {cid},
                              !.error = outcome.error]
  /\ UNCHANGED <<dags, table, put, queryVars, accountVars>>

\* No row is left: the generator returns.
endOfRows ==
  /\ reader.pc = "rows"
  /\ RowsLeft = {}
  /\ reader' = [reader EXCEPT !.pc = "done"]
  /\ UNCHANGED <<dags, table, put, queryVars, accountVars>>

NextStore ==
  \/ \E w \in Writers : \E l \in PutLists : putMany(w, l)
  \/ \E w \in Writers : \E i \in 1..Cardinality(StoreItems) :
       writeEntries(w, i)
  \/ \E w \in Writers : insertRows(w)
  \/ \E w \in Writers : insertFails(w)
  \/ \E c \in StoreItems : \E l \in {<<>>, <<c, c>>} :
       otherPut(carFileKeyer(c), l)
  \/ \E a \in Audiences : Storage_find(a)
  \/ \E canStream \in BOOLEAN : asyncIterator(canStream)
  \/ \E c \in StoreItems : yieldRow(c)
  \/ endOfRows

SpecStore == Init /\ [][NextStore]_vars

\* ---------------------------------------------------------------- accounts
Emails == {<<"mailto:", "alice@web.mail">>, <<"mailto:", "bob@web.mail">>}

\* The text a delegation is saved as.
delegationToString(delegation) == <<"ucan", delegation>>

JSON_stringify(value) == [json |-> value]

JSON_parse(text) == text.json

\* kv.put(key, value)
kv_put(namespace, key, value) ==
  [k \in DOMAIN namespace \cup {key} |->
     IF k = key THEN value ELSE namespace[k]]

\* saveDelegation(email, delegation) is called: kv.get is sent.
saveDelegation(s, email, delegation) ==
  /\ saver[s].pc = "idle"
  /\ saver' = [saver EXCEPT ![s] =
                 [IdleSaver EXCEPT !.pc = "get", !.email = email,
                                   !.delegation = delegation]]
  /\ UNCHANGED <<kv, lookup, queryVars, storeVars>>

\* await this.kv.get(email, { type: 'json' }) answers.
saveDelegation_get(s) ==
  /\ saver[s].pc = "get"
  /\ saver' = [saver EXCEPT ![s].pc = "put",
                            ![s].found = saver[s].email \in DOMAIN kv,
                            ![s].accs =
                              IF saver[s].email \in DOMAIN kv
                              THEN JSON_parse(kv[saver[s].email])
                              ELSE <<>>]
  /\ UNCHANGED <<kv, lookup, queryVars, storeVars>>

\* The list that was read, with the delegation pushed, or the list of the
\* delegation alone, is put.
saveDelegation_put(s) ==
  /\ saver[s].pc = "put"
  /\ kv' = kv_put(kv, saver[s].email,
                  JSON_stringify(
                    IF saver[s].found
                    THEN Append(saver[s].accs,
                                delegationToString(saver[s].delegation))
                    ELSE <<delegationToString(saver[s].delegation)>>))
  /\ saver' = [saver EXCEPT ![s].pc = "done"]
  /\ UNCHANGED <<lookup, queryVars, storeVars>>

\* Boolean(await this.kv.get(email))
Boolean_get(namespace, email) == email \in DOMAIN namespace

hasDelegations(email) ==
  /\ lookup' = [NoLookup EXCEPT !.op = "hasDelegations", !.email = email,
                                !.has = Boolean_get(kv, email)]
  /\ UNCHANGED <<kv, saver, queryVars, storeVars>>

\* The list getDelegations returns; nothing is returned for a missing key.
Delegations_get(namespace, email) ==
  IF email \in DOMAIN namespace THEN JSON_parse(namespace[email]) ELSE <<>>

getDelegations(email) ==
  /\ lookup' = [NoLookup EXCEPT !.op = "getDelegations", !.email = email,
                                !.found = email \in DOMAIN kv,
                                !.delegations = Delegations_get(kv, email)]
  /\ UNCHANGED <<kv, saver, queryVars, storeVars>>

NextAccounts ==
  \/ \E s \in Savers : \E email \in Emails : \E d \in StoreItems :
       saveDelegation(s, email, d)
  \/ \E s \in Savers : saveDelegation_get(s)
  \/ \E s \in Savers : saveDelegation_put(s)
  \/ \E email \in Emails : hasDelegations(email)
  \/ \E email \in Emails : getDelegations(email)

SpecAccounts == Init /\ [][NextAccounts]_vars

\* ------------------------------------------------- vocabulary of the claims
\* What a delegation says, read from its own fields.
Ucan(d) == Delegations[d]

Known == Projected(db)

NotExpired(d, time) ==
  Ucan(d).expiration = Infinity \/ Ucan(d).expiration >= time

IssuedByMailto(d) ==
  Ucan(d).issuer[1] = "did:" /\ Ucan(d).issuer[2] = "mailto:"

\* Attestations of proof p for the audience, unexpired at the time.
AttestationsOf(ucans, p, audience, time) ==
  {a \in ucans :
     /\ Ucan(a).audience = audience
     /\ NotExpired(a, time)
     /\ \E c \in Range(Ucan(a).capabilities) :
          c.can = ucanAttest /\ c.nb = p}

\* The abilities through which p delegates on the subject to the audience:
\* a capability on the subject itself, or a capability on ucan:* of a
\* delegation issued by the subject or backed by a proof that delegates the
\* same ability on the subject to its issuer.
GrantedCans(ucans, p, audience, subject, time) ==
  IF ~ (p \in ucans /\ Ucan(p).audience = audience /\ NotExpired(p, time))
  THEN {}
  ELSE {c.can : c \in {k \in Range(Ucan(p).capabilities) :
                         k.with = subject}}
       \cup
       {c.can : c \in {k \in Range(Ucan(p).capabilities) :
                  /\ k.with = ucanAny
                  /\ \/ Ucan(p).issuer = subject
                     \/ \E pr \in Ucan(p).proofs \cap ucans :
                          /\ NotExpired(pr, time)
                          /\ Ucan(pr).audience = Ucan(p).issuer
                          /\ \E g \in Range(Ucan(pr).capabilities) :
                               g.with = subject /\ g.can = k.can}}

Satisfies(can, need) == need = NoNeed \/ glob(need, can)

Grants(ucans, p, audience, subject, need, time) ==
  \E can \in GrantedCans(ucans, p, audience, subject, time) :
    Satisfies(can, need)

\* The subject a selector accepts.
SubjectAccepted(subject, constraint) ==
  CASE constraint.kind = "none" -> TRUE
    [] constraint.kind = "is" -> subject = constraint.text
    [] OTHER -> glob(subject, constraint.text)

\* Every text that names a resource or a principal.
Resources ==
  UNION {{Ucan(d).issuer, Ucan(d).audience}
           \cup {c.with : c \in Range(Ucan(d).capabilities)} : d \in Links}

Cited(p, subject) == \E r \in result : r.subject = subject /\ p \in r.proofs

\* ---------------------------------------------------------------------- C1
\* C1: every Authorization returned by query cites only proofs that are
\* unexpired at the query time, and every cited proof issued by a
\* did:mailto: principal comes with a cited attestation of that proof for
\* the querying audience that is itself unexpired at the query time.
C1_Soundness ==
  pc = "done" =>
    \A r \in result : \A p \in r.proofs :
      /\ NotExpired(p, selector.time)
      /\ IssuedByMailto(p) =>
           AttestationsOf(r.proofs, p, selector.audience, selector.time) # {}

C1_Witness ==
  /\ pc = "done"
  /\ selector.time > 0
  /\ \E r \in result : \E p \in r.proofs :
       /\ IssuedByMailto(p)
       /\ \E a \in AttestationsOf(r.proofs, p, selector.audience,
                                  selector.time) :
            Ucan(a).expiration # Infinity

\* The ability requested by a selector that names at most one.
TheNeed == IF selector.can = <<>> THEN NoNeed ELSE selector.can[1]

Attested(d) ==
  AttestationsOf(Known, d, selector.audience, selector.time) # {}

\* ---------------------------------------------------------------------- C2
\* C2 as stated: whenever the delegation set has a delegation with audience
\* X, a capability (can = A, with = S) and expiration >= the query time, the
\* query of audience X for {A} returns an Authorization for S that cites it.
C2_CompletenessAsStated ==
  (pc = "done" /\ Len(selector.can) = 1 /\ selector.subject.kind = "none") =>
    \A d \in Known : \A c \in Range(Ucan(d).capabilities) :
      (/\ Ucan(d).audience = selector.audience
       /\ c.can = selector.can[1]
       /\ NotExpired(d, selector.time))
        => Cited(d, c.with)

\* C2 amended: the same, for a delegation whose issuer is not a did:mailto:
\* principal or that has an unexpired attestation for X in the set.
C2_Completeness ==
  (pc = "done" /\ Len(selector.can) = 1 /\ selector.subject.kind = "none") =>
    \A d \in Known : \A c \in Range(Ucan(d).capabilities) :
      (/\ Ucan(d).audience = selector.audience
       /\ c.can = selector.can[1]
       /\ NotExpired(d, selector.time)
       /\ ~ IssuedByMailto(d) \/ Attested(d))
        => Cited(d, c.with)

C2_Witness ==
  /\ pc = "done"
  /\ Len(selector.can) = 1
  /\ selector.subject.kind = "none"
  /\ \E d \in db : \E c \in Range(Ucan(d).capabilities) :
       /\ c.can = selector.can[1]
       /\ IssuedByMailto(d)
       /\ Attested(d)
       /\ Cited(d, c.with)

\* ---------------------------------------------------------------------- C3
\* C3: a proof with expiration t is matched by a query with time <= t and
\* excluded by a query with time > t; a proof without expiration is matched
\* at every time.  (Stated of the grants that need no attestation.)
C3_ExpirationBoundary ==
  (pc = "done" /\ Len(selector.can) = 1 /\ selector.subject.kind = "none") =>
    \A d \in Known : \A c \in Range(Ucan(d).capabilities) :
      (/\ Ucan(d).audience = selector.audience
       /\ c.can = selector.can[1]
       /\ ~ IssuedByMailto(d))
        => (Cited(d, c.with) <=>
              \/ Ucan(d).expiration = Infinity
              \/ selector.time <= Ucan(d).expiration)

C3_Witness ==
  /\ pc = "done"
  /\ \E r \in result : \E d \in r.proofs :
       /\ Ucan(d).expiration = selector.time
       /\ <<"add", Infinity>> \notin db

\* ---------------------------------------------------------------------- C4
\* C4: a proof that matches the selector is returned exactly when its issuer
\* is not a did:mailto: principal or the delegation set holds an attestation
\* of it for the audience: without the attestation a did:mailto: proof is
\* never returned, with it the proof is returned, and any other proof is
\* returned with or without attestations.
C4_AttestationGating ==
  (pc = "done" /\ Len(selector.can) <= 1) =>
    LET known == Known
    IN \A d \in {x \in known : Ucan(x).audience = selector.audience} :
         \A s \in {x \in Resources : SubjectAccepted(x, selector.subject)} :
           Grants(known, d, selector.audience, s, TheNeed, selector.time)
             => (Cited(d, s) <=> (~ IssuedByMailto(d) \/ Attested(d)))

C4_Witness ==
  /\ pc = "done"
  /\ result = {}
  /\ \E d \in db : \E s \in Resources :
       /\ Grants(Known, d, selector.audience, s, TheNeed, selector.time)
       /\ SubjectAccepted(s, selector.subject)
       /\ IssuedByMailto(d)
       /\ ~ Attested(d)
       /\ \E a \in db : \E c \in Range(Ucan(a).capabilities) : c.nb = d

\* The groups a selector asks for, and what can fill one of them on a
\* subject: a granting delegation, the ability the record will list for it,
\* and its attestation (none for a proof that needs none).
Needs == IF selector.can = <<>> THEN <<NoNeed>> ELSE selector.can

Evidence(d) ==
  (IF IssuedByMailto(d) THEN {} ELSE {Unbound})
    \cup AttestationsOf(Known, d, selector.audience, selector.time)

Fillers(need, subject) ==
  LET known == Known
  IN UNION {{<<d, IF need = NoNeed THEN can ELSE need, a>> :
               can \in {g \in GrantedCans(known, d, selector.audience,
                                          subject, selector.time) :
                          Satisfies(g, need)},
               a \in Evidence(d)} :
            d \in {x \in known : Ucan(x).audience = selector.audience}}

RecordsOf(subject) == {r \in result : r.subject = subject}

C6_OnePerSubjectAsStated ==
  pc = "done" =>
    \A r1 \in result : \A r2 \in result :
      (r1.authority = r2.authority /\ r1.subject = r2.subject) => r1 = r2

RECURSIVE Combinations(_, _)
Combinations(needs, subject) ==
  IF needs = <<>> THEN 1
  ELSE Cardinality(Fillers(Head(needs), subject))
         * Combinations(Tail(needs), subject)

\* C6 amended: the result holds one Authorization per combination of matches
\* of the proof groups: a subject has a record exactly when every group has
\* a match on it, and never more records than combinations, so two records
\* share a subject only where some group has more than one match.
C6_OnePerCombination ==
  pc = "done" =>
    \A s \in Resources :
      LET combinations ==
            IF SubjectAccepted(s, selector.subject)
            THEN Combinations(Needs, s) ELSE 0
      IN /\ Cardinality(RecordsOf(s)) <= combinations
         /\ combinations > 0 => RecordsOf(s) # {}

C6_Witness ==
  /\ pc = "done"
  /\ \E r1 \in result : \E r2 \in result :
       /\ r1.subject = r2.subject
       /\ r1.can = r2.can
       /\ r1.proofs # r2.proofs

\* ---------------------------------------------------------------------- C7
\* C7: a subject is returned only if every requested ability is granted on
\* it to the audience by one of the proofs the record cites.
C7_AllAbilitiesOnSubject ==
  pc = "done" =>
    \A r \in result : \A i \in DOMAIN selector.can :
      \E p \in r.proofs :
        Grants(Known, p, selector.audience, r.subject, selector.can[i],
               selector.time)

C7_Witness ==
  /\ pc = "done"
  /\ Len(selector.can) = 2
  /\ result # {}
  /\ \E s \in Resources :
       /\ SubjectAccepted(s, selector.subject)
       /\ Fillers(selector.can[1], s) # {}
       /\ Fillers(selector.can[2], s) = {}
       /\ RecordsOf(s) = {}

\* ---------------------------------------------------------------------- C8
\* A delegation that would fill one of the groups of the selector if nothing
\* had expired and no attestation were asked for.
Candidate(d) ==
  \E s \in Resources : \E i \in DOMAIN Needs :
    /\ SubjectAccepted(s, selector.subject)
    /\ Grants(Known, d, selector.audience, s, Needs[i], 0)

\* C8: when no delegation matches the selector, or every candidate proof is
\* expired at the query time or lacks the attestation it requires, the query
\* completes with an empty result.
C8_FailuresAreEmpty ==
  (/\ pc = "done"
   /\ \A d \in Known :
        Candidate(d) =>
          \/ ~ NotExpired(d, selector.time)
          \/ IssuedByMailto(d) /\ ~ Attested(d))
    => result = {}

C8_Witness ==
  /\ pc = "done"
  /\ result = {}
  /\ \E d \in db : Candidate(d) /\ ~ NotExpired(d, selector.time)
  /\ \E d \in db : Candidate(d) /\ IssuedByMailto(d) /\ ~ Attested(d)

\* ---------------------------------------------------------------------- C9
\* C9: every Authorization has the audience of the selector as authority and
\* a subject the subject pattern accepts (any subject when none is given),
\* and cites only delegations addressed to that audience.
C9_AudienceAndSubject ==
  pc = "done" =>
    \A r \in result :
      /\ r.authority = selector.audience
      /\ CASE selector.subject.kind = "none" -> TRUE
           [] selector.subject.kind = "is" ->
                r.subject = selector.subject.text
           [] OTHER -> glob(r.subject, selector.subject.text)
      /\ \A p \in r.proofs : Ucan(p).audience = selector.audience

C9_Witness ==
  /\ pc = "done"
  /\ selector.subject.kind = "glob"
  /\ result # {}
  /\ \E d \in db : Ucan(d).audience # selector.audience
  /\ \E d \in db : \E c \in Range(Ucan(d).capabilities) :
       /\ Ucan(d).audience = selector.audience
       /\ ~ glob(c.with, selector.subject.text)
       /\ RecordsOf(c.with) = {}

\* --------------------------------------------------------------------- C10
\* C10: without requested abilities the query has a single group with no
\* need and returns every unexpired, attestation-satisfying capability
\* delegated to the audience, whatever its ability; with requested abilities
\* it has exactly one group per key.
C10_AnyAbility ==
  /\ query(selector).proofs = Needs
  /\ (pc = "done" /\ selector.can = <<>>) =>
       result =
         UNION {{[authority |-> selector.audience,
                  subject |-> s,
                  can |-> {f[2]},
                  proofs |-> {f[1], f[3]} \ {Unbound}] :
                   f \in Fillers(NoNeed, s)} :
                s \in {t \in Resources :
                         SubjectAccepted(t, selector.subject)}}

C10_Witness ==
  /\ pc = "done"
  /\ selector.can = <<>>
  /\ \E r1 \in result : \E r2 \in result :
       /\ r1.can # r2.can
       /\ r1.proofs = r2.proofs
       /\ r1.subject = r2.subject

\* --------------------------------------------------------------------- C11
\* The archive read for a row holds no or several delegations.
BadArchive(cid) ==
  /\ carFileKeyer(cid) \in DOMAIN dags
  /\ Len(bytesToDelegations(dags[carFileKeyer(cid)])) # 1

\* C11 as stated: reading a row whose archive does not decode to exactly one
\* delegation fails with an error of the UnexpectedDelegation kind, and no
\* delegation is yielded for that row.
C11_UnexpectedDelegation ==
  [][\A cid \in StoreItems :
       (yieldRow(cid) /\ BadArchive(cid)) =>
         /\ reader'.pc = "threw"
         /\ reader'.error.name = "UnexpectedDelegation"
         /\ reader'.yielded = reader.yielded]_vars

\* What the code does for such a row: it throws a plain Error with the
\* message of the count check, and yields nothing for the row.
C11_PlainError ==
  [][\A cid \in StoreItems :
       (yieldRow(cid) /\ BadArchive(cid)) =>
         /\ reader'.pc = "threw"
         /\ reader'.error =
              [name |-> "Error", message |-> "expected 1 delegation in CAR"]
         /\ reader'.yielded = reader.yielded]_vars

C11_Witness ==
  /\ reader.pc = "threw"
  /\ reader.error.message = "expected 1 delegation in CAR"
  /\ reader.yielded # {}

\* --------------------------------------------------------------------- C12
\* C12 as stated: explicit never matches a delegation through a capability
\* whose resource is 'ucan:*', whatever the subject is left to be: no solution
\* of explicit binds the subject to 'ucan:*'.
C12_NeverThroughWildcard ==
  LET index == from(db)
  IN \A delegation \in index.ucans :
       \A audience \in Values(index.audience) :
         \A issuer \in Values(index.issuer) :
           \A can \in Values(index.can) :
             \A time \in Times :
               ~ explicit(index, delegation, audience, issuer, ucanAny, can,
                          time)

\* The part of C12 that the code keeps: a solution of explicit has the
\* subject equal to the resource of a capability of the delegation.
C12_ResourceIsSubject ==
  LET index == from(db)
  IN \A delegation \in index.ucans :
       \A audience \in Values(index.audience) :
         \A issuer \in Values(index.issuer) :
           \A subject \in Values(index.with) :
             \A can \in Values(index.can) :
               explicit(index, delegation, audience, issuer, subject, can,
                        selector.time)
                 => \E capability \in Range(Ucan(delegation).capabilities) :
                      capability.with = subject /\ capability.can = can

\* A query that leaves the subject out returns a record for 'ucan:*'.
C12_Witness ==
  /\ pc = "done"
  /\ selector.subject = NoConstraint
  /\ \E record \in result : record.subject = ucanAny

\* --------------------------------------------------------------------- C13
\* d has a capability on 'ucan:*' for the ability, the given audience and
\* issuer, and is unexpired; and its issuer is the subject, or one of its
\* proofs delegates the ability on the subject itself to that issuer and is
\* unexpired at the same time.
ImplicitlyDelegates(ucans, d, subject, can, time, audience, issuer) ==
  /\ Ucan(d).audience = audience
  /\ Ucan(d).issuer = issuer
  /\ NotExpired(d, time)
  /\ \E c \in Range(Ucan(d).capabilities) : c.with = ucanAny /\ c.can = can
  /\ \/ issuer = subject
     \/ \E p \in Ucan(d).proofs \cap ucans :
          /\ Ucan(p).audience = issuer
          /\ NotExpired(p, time)
          /\ \E c \in Range(Ucan(p).capabilities) :
               c.with = subject /\ c.can = can

\* Every capability of d is on 'ucan:*'.
OnlyImplicit(d) ==
  \A c \in Range(Ucan(d).capabilities) : c.with = ucanAny

\* The first half of C13: implicit matches exactly the delegations that
\* delegate implicitly in the sense above.
C13_ImplicitExactly ==
  LET index == from(db)
  IN \A d \in index.ucans :
       \A audience \in Values(index.audience) :
         \A issuer \in Values(index.issuer) :
           \A subject \in Values(index.with) \cup Values(index.issuer) :
             \A can \in Values(index.can) :
               \A time \in Times :
                 implicit(index, d, subject, can, time, audience, issuer)
                   <=> ImplicitlyDelegates(index.ucans, d, subject, can,
                                           time, audience, issuer)

\* The second half of C13: a 'ucan:*' delegation whose proofs are all
\* themselves 'ucan:*' delegations is matched for no subject other than its
\* issuer.
C13_OneLevel ==
  LET index == from(db)
  IN \A d \in index.ucans :
       (/\ Ucan(d).proofs # {}
        /\ OnlyImplicit(d)
        /\ \A p \in Ucan(d).proofs : OnlyImplicit(p))
         => \A subject \in Values(index.with) \ {Ucan(d).issuer} :
              \A can \in Values(index.can) :
                \A time \in Times :
                  ~ implicit(index, d, subject, can, time, Ucan(d).audience,
                             Ucan(d).issuer)

\* C13 as stated: implicit matches exactly the delegations with a 'ucan:*'
\* capability for the ability that are unexpired, have the given audience
\* and issuer, and are issued by the subject or carry a proof that explicitly
\* delegates the ability on the subject to the issuer; and a 'ucan:*'
\* delegation whose only proof is itself implicit is not matched.
C13_ImplicitAsStated == C13_ImplicitExactly /\ C13_OneLevel

\* The delegation with an implicit proof is not matched for the account that
\* stands behind that proof.
C13_NotForTheAccount ==
  LET index == from(db)
  IN \A d \in index.ucans :
       (/\ Ucan(d).proofs # {}
        /\ OnlyImplicit(d)
        /\ \A p \in Ucan(d).proofs : OnlyImplicit(p))
         => \A subject \in Values(index.issuer) \ {Ucan(d).issuer} :
              \A can \in Values(index.can) :
                \A time \in Times :
                  ~ implicit(index, d, subject, can, time, Ucan(d).audience,
                             Ucan(d).issuer)

C13_Witness ==
  /\ pc = "done"
  /\ <<"session", Infinity>> \in db
  /\ selector.audience = bob
  /\ \E record \in result :
       record.subject = ucanAny /\ <<"session", Infinity>> \in record.proofs

\* --------------------------------------------------------------------- C14
\* A delegated ability covers a requested one when it is that ability, the
\* wildcard '*', or the wildcard of the namespace of the requested one.
Covers(delegated, requested) ==
  \/ delegated = requested
  \/ delegated = anyAbility
  \/ /\ Len(delegated) = 2
     /\ Len(requested) = 2
     /\ delegated[1] = requested[1]
     /\ delegated[2] = "*"

\* C14: the delegated ability is the pattern and the requested ability the
\* text.  A grant whose ability covers the requested one is returned (a
\* 'store/*' or '*' proof satisfies a 'store/add' request), and every record
\* cites a proof whose delegated ability covers the requested one (a
\* 'store/add' proof does not satisfy a 'store/*' request).
C14_AbilityDirection ==
  (pc = "done" /\ Len(selector.can) = 1) =>
    /\ \A d \in Known : \A c \in Range(Ucan(d).capabilities) :
         (/\ Ucan(d).audience = selector.audience
          /\ Covers(c.can, selector.can[1])
          /\ SubjectAccepted(c.with, selector.subject)
          /\ NotExpired(d, selector.time)
          /\ ~ IssuedByMailto(d) \/ Attested(d))
           => Cited(d, c.with)
    /\ \A r \in result : \E p \in r.proofs :
         \E can \in GrantedCans(Known, p, selector.audience, r.subject,
                                selector.time) :
           Covers(can, selector.can[1])

\* A request for 'store/*' is answered by the 'store/*' grant and not by the
\* 'store/add' grant of the same database.
C14_Witness ==
  /\ pc = "done"
  /\ selector.can = <<storeAny>>
  /\ db = {<<"share", Infinity>>, <<"add", Infinity>>}
  /\ Cited(<<"share", Infinity>>, space)
  /\ ~ Cited(<<"add", Infinity>>, space)

\* --------------------------------------------------------------------- C15
\* C15: query never builds a clause tree that raises a construction error.
\* In each proof group the match clause binds the issuer and the can
\* variable on both its branches, before the Not(Glob(issuer, ...)) and the
\* glob of the need; and the groups bind the subject and the audience before
\* their text constraints.
C15_NoConstructionError ==
  LET subject == Variable("subject", <<>>)
      audience == Variable("audience", <<>>)
  IN /\ Constructs(query_clause(selector), {})
     /\ \A g \in DOMAIN Needs :
          LET bound ==
                Binds(match_clause(Variable("proof", <<g>>), audience,
                                   subject, Variable("issuer", <<g>>),
                                   Variable("can", <<g>>), <<g>>), {})
          IN {Variable("issuer", <<g>>), Variable("can", <<g>>), subject,
              audience} \subseteq bound

\* A query of two groups with a subject pattern was built and evaluated.
C15_Witness ==
  /\ pc = "done"
  /\ Len(selector.can) = 2
  /\ selector.subject.kind = "glob"
  /\ result # {}
  /\ \E g \in DOMAIN Needs :
       Variable("issuer", <<g>>) \in Free(query_clause(selector))

\* --------------------------------------------------------------------- C16
\* C16: index rows never point at a missing blob.  In every interleaving of
\* putMany calls with find or iteration, every row of the table has its
\* archive in the bucket, and the reader never fails with 'failed to read
\* car bytes'.
C16_RowsHaveBlobs ==
  /\ \A row \in table : carFileKeyer(row.cid) \in DOMAIN dags
  /\ reader.error.message # "failed to read car bytes"

\* A reader has been handed the delegation of a row while another putMany
\* was still writing, and a putMany whose insert failed has left an archive
\* in the bucket that no row points at.
C16_Witness ==
  /\ reader.yielded # {}
  /\ \E w \in Writers : put[w].pc = "write" /\ put[w].pending # {}
  /\ \E w \in Writers :
       /\ put[w].pc = "failed"
       /\ \E i \in DOMAIN put[w].delegations :
            /\ carFileKeyer(put[w].delegations[i]) \in DOMAIN dags
            /\ \A row \in table : row.cid # put[w].delegations[i]

\* --------------------------------------------------------------------- C17
\* No saveDelegation call is in flight.
AllSaved == \A s \in Savers : saver[s].pc \in {"idle", "done"}

\* C17 as stated: once the saveDelegation calls have completed, in whatever
\* order their reads and writes took place, getDelegations(email) contains
\* every delegation saved for the email and hasDelegations(email) is true.
C17_NoDelegationLost ==
  AllSaved =>
    \A s \in Savers :
      saver[s].pc = "done" =>
        /\ Boolean_get(kv, saver[s].email)
        /\ delegationToString(saver[s].delegation)
             \in Range(Delegations_get(kv, saver[s].email))

\* What holds of the code: after the calls the email has delegations, and
\* the delegation of the call that wrote last is among them.
C17_SomeDelegationKept ==
  AllSaved =>
    \A s \in Savers :
      saver[s].pc = "done" =>
        /\ Boolean_get(kv, saver[s].email)
        /\ \E t \in Savers :
             /\ saver[t].pc = "done"
             /\ saver[t].email = saver[s].email
             /\ delegationToString(saver[t].delegation)
                  \in Range(Delegations_get(kv, saver[s].email))

\* Two calls for one email have completed and getDelegations has returned a
\* list without the delegation of one of them.
C17_Witness ==
  /\ AllSaved
  /\ lookup.op = "getDelegations"
  /\ \E s \in Savers :
       /\ saver[s].pc = "done"
       /\ lookup.email = saver[s].email
       /\ lookup.delegations = Delegations_get(kv, lookup.email)
       /\ delegationToString(saver[s].delegation)
            \notin Range(lookup.delegations)

\* --------------------------------------------------------------------- C18
\* The (subject, ability, proof) triples a result authorizes.
Triples(records) ==
  UNION {{<<r.subject, ability, proof>> : ability \in r.can,
                                          proof \in r.proofs} :
         r \in records}

\* C18: query is monotone in the delegation set.  For the selector and time
\* of the query, every triple authorized over the database less one of its
\* delegations is authorized over the database; by induction on the
\* delegations added, the same holds of every subset.
C18_Monotone ==
  pc = "done" =>
    \A d \in db : Triples(find(db \ {d}, selector)) \subseteq Triples(result)

\* A triple authorized by a smaller database is still authorized after a
\* delegation was added that brings triples of its own.
C18_Witness ==
  /\ pc = "done"
  /\ \E d \in db :
       /\ Triples(find(db \ {d}, selector)) # {}
       /\ Triples(find(db \ {d}, selector)) # Triples(result)
       /\ Triples(find(db \ {d}, selector)) \subseteq Triples(result)

====
